---- MODULE Spec2Model ----
(***************************************************************************)
(* State-machine model of hn_notifier.py: the SQLite store (StateStore),   *)
(* the two HTTP clients with their bounded retry loops, bootstrap,         *)
(* the monitored-set refresh, the per-item comment diff and main's loop.   *)
(*                                                                         *)
(* The remote APIs are inputs: every fetch and every send draws its        *)
(* per-attempt outcomes and its response from small sets, so the submitted *)
(* list and an item's children may differ from one call to the next.       *)
(* Time stamps (notified_at, initialized_at) are abstracted to a marker.   *)
(***************************************************************************)
EXTENDS Integers, Sequences, FiniteSets, TLC

\* ---------------------------------------------------------------- bounds
MaxItems == 2
MaxKids == 2
MaxOver == 2    \* a text is at most this much longer than the preview limit

\* ------------------------------------------------------ program constants
MAX_RETRIES == 3
COMMENT_PREVIEW_LIMIT == 300

Items == 1..MaxItems
Kids == {10 + n : n \in 1..MaxKids}
Users == {"alice", "bob"}
NULL == "NULL"
NoPair == <<0, 0>>
Pairs == Items \X Kids

\* ---------------------------------------------------------------- helpers
Min(S) == CHOOSE x \in S : \A y \in S : x <= y

RECURSIVE sorted(_)
sorted(S) == IF S = {} THEN <<>> ELSE <<Min(S)>> \o sorted(S \ {Min(S)})

Range(q) == {q[n] : n \in 1..Len(q)}

\* ------------------------------------------------------------- StateStore
\* A store value is a record of the four tables.
EmptyStore ==
    [monitored_items |-> {}, item_kids |-> {}, notified_kids |-> {},
     metadata |-> [hn_username |-> NULL, initialized_at |-> NULL]]

\* Mutant: notified_kids is not cleared.
reset_state_keeps_notified(s) ==
    [EmptyStore EXCEPT !.notified_kids = s.notified_kids]

reset_state(s) == EmptyStore

add_monitored_items(s, item_ids) ==
    [s EXCEPT !.monitored_items = @ \cup item_ids]

\* DELETE FROM monitored_items cascades to item_kids (foreign_keys=ON,
\* ON DELETE CASCADE), then the given ids are inserted.
replace_monitored_items(s, item_ids) ==
    [s EXCEPT !.monitored_items = item_ids, !.item_kids = {}]

\* Mutant: the rows of item_kids are left behind.
remove_monitored_items_no_cascade(s, item_ids) ==
    [s EXCEPT !.monitored_items = @ \ item_ids]

\* Mutant: only the kids are deleted, the items stay monitored.
remove_monitored_items_kids_only(s, item_ids) ==
    [s EXCEPT !.item_kids = {p \in @ : p[1] \notin item_ids}]

remove_monitored_items(s, item_ids) ==
    [s EXCEPT !.item_kids = {p \in @ : p[1] \notin item_ids},
              !.monitored_items = @ \ item_ids]

\* Mutant: ORDER BY item_id DESC.
get_monitored_items_desc(s) ==
    LET asc == sorted(s.monitored_items)
    IN [n \in 1..Len(asc) |-> asc[Len(asc) + 1 - n]]

get_monitored_items(s) == sorted(s.monitored_items)

\* Mutant: the WHERE item_id = ? is missing.
get_known_kids_any_item(s, item_id) == {p[2] : p \in s.item_kids}

get_known_kids(s, item_id) == {p[2] : p \in {q \in s.item_kids : q[1] = item_id}}

\* Mutant: the item's rows are replaced by the given ones.
add_kids_replaces(s, item_id, kid_ids) ==
    [s EXCEPT !.item_kids = {p \in @ : p[1] # item_id}
                                \cup {<<item_id, k>> : k \in kid_ids}]

add_kids(s, item_id, kid_ids) ==
    [s EXCEPT !.item_kids = @ \cup {<<item_id, k>> : k \in kid_ids}]

\* INSERT OR IGNORE skips a row whose primary key exists; a row whose
\* item_id is in no row of monitored_items breaks the foreign key, which
\* OR IGNORE does not cover: sqlite3.IntegrityError, nothing is inserted.
add_kids_raises(s, item_id, kid_ids) ==
    kid_ids # {} /\ item_id \notin s.monitored_items

is_kid_notified(s, kid_id) == kid_id \in s.notified_kids

\* Mutant: the insert into notified_kids is lost.
mark_kid_notified_lost(s, kid_id) == s

mark_kid_notified(s, kid_id) ==
    [s EXCEPT !.notified_kids = @ \cup {kid_id}]

\* Mutant: the row is looked up under a key that is never written.
get_metadata_no_row(s, key) == NULL

get_metadata(s, key) == s.metadata[key]

set_metadata(s, key, value) == [s EXCEPT !.metadata[key] = value]

\* ------------------------------------------------------------ load_settings
\* The environment a process starts in: the three required values (empty
\* when missing) and whether POLL_INTERVAL_MINUTES parses as an integer.
\* Drawn: a complete environment for each user, and one with each single
\* defect.
Complete(username) ==
    [HN_USERNAME |-> username, TELEGRAM_BOT_TOKEN |-> "token",
     TELEGRAM_CHAT_ID |-> "chat", interval_is_int |-> TRUE]

Environments ==
    {Complete(u) : u \in Users}
        \cup {Complete(""),
              [Complete("alice") EXCEPT !.TELEGRAM_BOT_TOKEN = ""],
              [Complete("alice") EXCEPT !.TELEGRAM_CHAT_ID = ""],
              [Complete("alice") EXCEPT !.interval_is_int = FALSE]}

\* Mutant: the interval is taken as it is, int() is not applied.
load_settings_any_interval(env) ==
    IF env.HN_USERNAME = "" \/ env.TELEGRAM_BOT_TOKEN = "" \/ env.TELEGRAM_CHAT_ID = ""
    THEN [raised |-> TRUE, hn_username |-> NULL]
    ELSE [raised |-> FALSE, hn_username |-> env.HN_USERNAME]

\* ValueError is raised when a required value is missing or the interval
\* is not an integer; otherwise the Settings are returned.
load_settings(env) ==
    IF env.HN_USERNAME = "" \/ env.TELEGRAM_BOT_TOKEN = "" \/ env.TELEGRAM_CHAT_ID = ""
    THEN [raised |-> TRUE, hn_username |-> NULL]
    ELSE IF ~env.interval_is_int
    THEN [raised |-> TRUE, hn_username |-> NULL]
    ELSE [raised |-> FALSE, hn_username |-> env.HN_USERNAME]

\* ------------------------------------------------------------ HTTP clients
GetOutcomes == {"ok", "error"}
\* not_ok: body["ok"] falsy; bad_json: response.json() raises ValueError;
\* not_object: the body has no .get (AttributeError, not in the except list).
PostOutcomes == {"ok", "http_error", "bad_json", "not_ok", "not_object"}
GetAttempts == [1..MAX_RETRIES -> GetOutcomes]
PostAttempts == [1..MAX_RETRIES -> PostOutcomes]
CaughtOutcomes == {"http_error", "bad_json", "not_ok"}

\* HNClient._get_json: the attempt loop, from attempt `attempt` on.
RECURSIVE get_json_from(_, _)
get_json_from(outs, attempt) ==
    IF outs[attempt] = "ok"
    THEN [raised |-> FALSE, attempts |-> attempt]
    ELSE IF attempt = MAX_RETRIES
         THEN [raised |-> TRUE, attempts |-> attempt]
         ELSE get_json_from(outs, attempt + 1)

\* Mutant: exhausted attempts fall out of the loop to `return None`.
get_json_returns_none(outs) ==
    [raised |-> FALSE, attempts |-> get_json_from(outs, 1).attempts]

get_json(outs) == get_json_from(outs, 1)

\* Mutant: body["ok"] is not looked at.
post_returns_unchecked(outcome) == outcome \in {"ok", "not_ok"}

\* One POST attempt returns normally only when the status is fine, the
\* body parses and body["ok"] is truthy.
post_returns(outcome) == outcome = "ok"

\* The exceptions one POST attempt raises that the except clause catches.
post_caught(outcome) == outcome \in CaughtOutcomes

\* TelegramClient.send_notification: the attempt loop, from `attempt` on.
RECURSIVE send_notification_from(_, _)
send_notification_from(outs, attempt) ==
    IF post_returns(outs[attempt])
    THEN [raised |-> FALSE, attempts |-> attempt]
    ELSE IF ~post_caught(outs[attempt]) \/ attempt = MAX_RETRIES
         THEN [raised |-> TRUE, attempts |-> attempt]
         ELSE send_notification_from(outs, attempt + 1)

send_notification(outs) == send_notification_from(outs, 1)

\* Response bodies. A body that is no JSON object carries nothing.
UserResponses ==
    {[is_dict |-> FALSE, submitted |-> {}]}
        \cup [is_dict : {TRUE}, submitted : SUBSET Items]
ItemResponses ==
    {[is_dict |-> FALSE, kids |-> {}]} \cup [is_dict : {TRUE}, kids : SUBSET Kids]

\* HNClient.fetch_user_submitted_ids, applied to the decoded body.
fetch_user_submitted_ids(data) == IF data.is_dict THEN data.submitted ELSE {}

\* extract_kids(fetch_item(...)), applied to the decoded body.
extract_kids(data) == IF data.is_dict THEN data.kids ELSE {}

\* An outbound call as it is logged by the step that made it.
Call(op, target, r) == [op |-> op, target |-> target, ok |-> ~r.raised]

\* ----------------------------------------------------- format_notification
\* A text is a sequence of characters. str.strip and str.rstrip remove
\* whitespace at both ends and at the right end.
Whitespace == {" ", "\n", "\t"}

RECURSIVE lstrip(_)
lstrip(text) ==
    IF text # <<>> /\ Head(text) \in Whitespace THEN lstrip(Tail(text)) ELSE text

RECURSIVE rstrip(_)
rstrip(text) ==
    IF text # <<>> /\ text[Len(text)] \in Whitespace
    THEN rstrip(SubSeq(text, 1, Len(text) - 1))
    ELSE text

strip(text) == rstrip(lstrip(text))

\* format_notification, line 276, applied to what strip_html_tags returned.
clean_text(without_tags) == strip(without_tags)

\* Mutant: the slice is taken at the limit, the ellipsis comes on top.
preview_over_budget(without_tags) ==
    LET clean == clean_text(without_tags) IN
    IF Len(clean) > COMMENT_PREVIEW_LIMIT
    THEN rstrip(SubSeq(clean, 1, COMMENT_PREVIEW_LIMIT)) \o <<".", ".", ".">>
    ELSE clean

\* format_notification, lines 276-278: the text between the header line
\* and the link.
preview(without_tags) ==
    LET clean == clean_text(without_tags) IN
    IF Len(clean) > COMMENT_PREVIEW_LIMIT
    THEN rstrip(SubSeq(clean, 1, COMMENT_PREVIEW_LIMIT - 3)) \o <<".", ".", ".">>
    ELSE clean

\* ------------------------------------------------ send_comment_notification
\* Mutant: the is_kid_notified guard is missing.
send_comment_notification_unguarded(s, kid_id, get_outs, available, post_outs) ==
    LET g == get_json(get_outs) IN
    IF g.raised
    THEN [store |-> s, outcome |-> "fetch_error",
          calls |-> <<Call("GET", kid_id, g)>>]
    ELSE IF ~available
    THEN [store |-> s, outcome |-> "unavailable",
          calls |-> <<Call("GET", kid_id, g)>>]
    ELSE LET p == send_notification(post_outs) IN
         IF p.raised
         THEN [store |-> s, outcome |-> "send_error",
               calls |-> <<Call("GET", kid_id, g), Call("POST", kid_id, p)>>]
         ELSE [store |-> mark_kid_notified(s, kid_id), outcome |-> "sent",
               calls |-> <<Call("GET", kid_id, g), Call("POST", kid_id, p)>>]

\* Mutant: the kid is marked notified before the message is sent.
send_comment_notification_marks_first(s, kid_id, get_outs, available, post_outs) ==
    LET r == send_comment_notification_unguarded(s, kid_id, get_outs, available, post_outs)
    IN IF is_kid_notified(s, kid_id)
       THEN [store |-> s, outcome |-> "skipped", calls |-> <<>>]
       ELSE IF r.outcome = "send_error"
       THEN [r EXCEPT !.store = mark_kid_notified(s, kid_id)]
       ELSE r

\* get_outs / available / post_outs are what the network answers if asked.
send_comment_notification(s, kid_id, get_outs, available, post_outs) ==
    IF is_kid_notified(s, kid_id)
    THEN [store |-> s, outcome |-> "skipped", calls |-> <<>>]
    ELSE LET g == get_json(get_outs) IN
         IF g.raised
         THEN [store |-> s, outcome |-> "fetch_error",
               calls |-> <<Call("GET", kid_id, g)>>]
         ELSE IF ~available
         THEN [store |-> s, outcome |-> "unavailable",
               calls |-> <<Call("GET", kid_id, g)>>]
         ELSE LET p == send_notification(post_outs) IN
              IF p.raised
              THEN [store |-> s, outcome |-> "send_error",
                    calls |-> <<Call("GET", kid_id, g), Call("POST", kid_id, p)>>]
              ELSE [store |-> mark_kid_notified(s, kid_id), outcome |-> "sent",
                    calls |-> <<Call("GET", kid_id, g), Call("POST", kid_id, p)>>]

\* Mutant: the errors are caught and False is returned.
Raises_swallowed(outcome) == FALSE

\* The outcomes on which send_comment_notification raises instead of returning.
Raises(outcome) == outcome \in {"fetch_error", "send_error"}

\* The network's answers to the attempts of one call, as a cycle draws
\* them: no attempt fails, every attempt fails alike, or (for a send) all
\* but the last do.
AllFail(kind) == [n \in 1..MAX_RETRIES |-> kind]
LastWorks(kind) == [n \in 1..MAX_RETRIES |-> IF n = MAX_RETRIES THEN "ok" ELSE kind]

GetAnswers == {AllFail("ok"), AllFail("error")}

PostAnswers ==
    {AllFail("ok"), AllFail("not_object"), LastWorks("http_error")}
        \cup {AllFail(kind) : kind \in CaughtOutcomes}

\* What the network answers to one send_comment_notification, if asked.
\* A comment fetch that raises or finds nothing is followed by no send:
\* the answers never asked for are fixed, so each case is drawn once.
Answers ==
    {a \in [get : GetAnswers, available : BOOLEAN, post : PostAnswers] :
        /\ (get_json(a.get).raised \/ ~a.available) => (a.post = AllFail("ok"))
        /\ get_json(a.get).raised => a.available}

NoAnswer == [get |-> AllFail("ok"), available |-> TRUE, post |-> AllFail("ok")]

\* Of an already notified kid nothing is asked.
AnswersFor(s, kid_id) == IF is_kid_notified(s, kid_id) THEN {NoAnswer} ELSE Answers

\* ------------------------------------------------------------------ state
VARIABLES
    store,        \* state.db: the four tables
    pc,           \* where the process is in main
    environ,      \* what load_settings read from os.environ and .env
    settings,     \* Settings.hn_username of the running process (NULL: none)
    todo_items,   \* the items the running for-loop still has to visit
    item_id,      \* the loop variable item_id while its kids are notified
    new_kids,     \* poll_once: new_kids of item_id (sorted); <<>> elsewhere
    todo_kids,    \* the kids the running inner for-loop still has to visit
    latest_set,   \* refresh/bootstrap: the submitted ids just fetched
    removed_items, \* refresh: removed_items (sorted), kept until the next step
    init_path,    \* branch ensure_state_initialized took, until the loop starts
    cycle,        \* "none", "running", "complete" or "abandoned"
    calls,        \* the outbound calls made by the last step, in order
    dispatched,   \* per kid: successful dispatches since the store was last reset
    observe,      \* what this behaviour keeps a record of: see Init
    baseline,     \* <<item, kid>> rows recorded by the store's last bootstrap
    last_fail,    \* <<item, kid>> whose dispatch raised in the cycle just abandoned
    last_skip,    \* <<item, kid>> last found unavailable in the current cycle
    promise,      \* <<item, kid>> the source API keeps listing in this cycle,
                  \* for as long as no call failed and no comment was unavailable
    call,         \* one function called on its own: its arguments and result
    cycle_start   \* the store as it was when the running cycle started

vars == <<store, pc, environ, settings, todo_items, item_id, new_kids, todo_kids,
          latest_set, removed_items, init_path, cycle, calls, dispatched,
          observe, baseline, last_fail, last_skip, promise, call,
          cycle_start>>

locals == <<todo_items, item_id, new_kids, todo_kids, latest_set>>
records == <<baseline, last_fail, last_skip, promise>>

NoDispatch == [k \in Kids |-> 0]
NoCall == [fn |-> "none"]
\* The environment before load_settings has read it.
NotRead == Complete("")

InitProgram ==
    /\ store = EmptyStore
    /\ pc = "start"
    /\ settings = NULL
    /\ todo_items = <<>>
    /\ item_id = 0
    /\ new_kids = <<>>
    /\ todo_kids = <<>>
    /\ latest_set = {}
    /\ removed_items = <<>>
    /\ init_path = NULL
    /\ cycle = "none"
    /\ calls = <<>>
    /\ dispatched = NoDispatch
    /\ baseline = {}
    /\ last_fail = NoPair
    /\ last_skip = NoPair
    /\ promise = NoPair
    /\ cycle_start = EmptyStore

InitMain == InitProgram /\ environ = NotRead /\ call = NoCall

\* baseline, last_fail, last_skip and promise are records of what happened,
\* not program state. The program's steps are the same in the three
\* specifications; each keeps only the records its properties read:
\* Spec none, SpecHistory the first three, SpecPromise the promise,
\* SpecCycle cycle_start.
Init == InitMain /\ observe = "none"
InitHistory == InitMain /\ observe = "history"
InitPromise == InitMain /\ observe = "promise"
InitCycle == InitMain /\ observe = "cycle"

ClearLocals ==
    /\ todo_items' = <<>>
    /\ item_id' = 0
    /\ new_kids' = <<>>
    /\ todo_kids' = <<>>
    /\ latest_set' = {}

\* ------------------------------------------------------------------- main
\* main, lines 409-413: load_settings; a ValueError ends the process with 1.
LoadSettings ==
    /\ pc = "start"
    /\ \E env \in Environments :
         LET r == load_settings(env) IN
         /\ environ' = env
         /\ settings' = r.hn_username
         /\ pc' = IF r.raised THEN "exit1" ELSE "init"
    /\ calls' = <<>>
    /\ removed_items' = <<>>
    /\ UNCHANGED <<store, locals, init_path, cycle, dispatched, observe, call, cycle_start, records>>

\* ensure_state_initialized up to the call of bootstrap_initial_state.
EnsureStateInitialized ==
    /\ pc = "init"
    /\ LET stored_username == get_metadata(store, "hn_username") IN
       IF stored_username = NULL
       THEN /\ pc' = "bootstrap"
            /\ init_path' = "fresh"
            /\ UNCHANGED <<store, dispatched>>
       ELSE IF stored_username # settings
       THEN /\ store' = reset_state(store)
            /\ dispatched' = NoDispatch
            /\ pc' = "bootstrap"
            /\ init_path' = "reset"
       ELSE /\ pc' = "initialized"
            /\ init_path' = "loaded"
            /\ UNCHANGED <<store, dispatched>>
    /\ calls' = <<>>
    /\ removed_items' = <<>>
    /\ UNCHANGED <<settings, locals, cycle, observe, call, cycle_start, environ, records>>

\* Mutant: hn_username is not written, initialized_at is.
bootstrap_finish_no_marker(s, username) ==
    set_metadata(s, "initialized_at", "time")

\* bootstrap_initial_state, lines 318-319: the completion marker.
bootstrap_finish(s, username) ==
    set_metadata(set_metadata(s, "hn_username", username), "initialized_at", "time")

\* bootstrap_initial_state, lines 309-310 (and 318-319 when nothing is
\* submitted). An exhausted fetch raises out of main's try: exit code 1.
BootstrapFetchList ==
    /\ pc = "bootstrap"
    /\ \E outs \in GetAnswers :
         LET r == get_json(outs) IN
         /\ calls' = <<Call("GET", 0, r)>>
         /\ IF r.raised
            THEN /\ pc' = "exit1"
                 /\ UNCHANGED <<store, locals, baseline>>
            ELSE \E data \in UserResponses :
                 LET submitted_ids == fetch_user_submitted_ids(data)
                     s1 == replace_monitored_items(store, submitted_ids)
                 IN
                 /\ latest_set' = submitted_ids
                 /\ todo_items' = sorted(submitted_ids)
                 /\ baseline' = {}
                 /\ UNCHANGED <<item_id, new_kids, todo_kids>>
                 /\ IF submitted_ids = {}
                    THEN /\ store' = bootstrap_finish(s1, settings)
                         /\ pc' = "initialized"
                    ELSE /\ store' = s1
                         /\ pc' = "bootstrap_items"
    /\ removed_items' = <<>>
    /\ UNCHANGED <<settings, init_path, cycle, dispatched, observe, call, cycle_start, environ,
                   last_fail, last_skip, promise>>

\* bootstrap_initial_state, lines 312-314 for one item (and 318-319 after
\* the last one).
BootstrapFetchItem ==
    /\ pc = "bootstrap_items"
    /\ \E outs \in GetAnswers :
         LET item == Head(todo_items)
             r == get_json(outs)
         IN
         /\ calls' = <<Call("GET", item, r)>>
         /\ IF r.raised
            THEN /\ pc' = "exit1"
                 /\ UNCHANGED <<store, locals, baseline>>
            ELSE \E data \in ItemResponses :
                 LET s1 == add_kids(store, item, extract_kids(data)) IN
                 /\ todo_items' = Tail(todo_items)
                 /\ baseline' = IF observe = "history"
                                THEN baseline \cup {<<item, k>> : k \in extract_kids(data)}
                                ELSE {}
                 /\ UNCHANGED <<item_id, new_kids, todo_kids, latest_set>>
                 /\ IF Tail(todo_items) = <<>>
                    THEN /\ store' = bootstrap_finish(s1, settings)
                         /\ pc' = "initialized"
                    ELSE /\ store' = s1
                         /\ pc' = "bootstrap_items"
    /\ removed_items' = <<>>
    /\ UNCHANGED <<settings, init_path, cycle, dispatched, observe, call, cycle_start, environ,
                   last_fail, last_skip, promise>>

\* ------------------------------------------------------------ the cycle
\* While a pair is promised, every answer of the source API in this cycle
\* lists the item as submitted and the kid among the item's children.
ListAllowed(data) ==
    promise = NoPair \/ (data.is_dict /\ promise[1] \in data.submitted)

ItemAllowed(item, data) ==
    promise = NoPair \/ item # promise[1]
        \/ (data.is_dict /\ promise[2] \in data.kids)

\* A cycle starts: the pair promised for it, if any, is one the store does
\* not know yet.
BeginCycle ==
    /\ pc' = "refresh"
    /\ cycle' = "running"
    /\ last_fail' = NoPair
    /\ last_skip' = NoPair
    /\ promise' \in {NoPair} \cup
                      (IF observe = "promise" THEN Pairs \ store.item_kids ELSE {})
    /\ cycle_start' = IF observe = "cycle" THEN store ELSE EmptyStore
    /\ calls' = <<>>
    /\ removed_items' = <<>>
    /\ ClearLocals

\* main, lines 428-431: ensure_state_initialized returned, the loop starts.
StartLoop ==
    /\ pc = "initialized"
    /\ BeginCycle
    /\ init_path' = NULL
    /\ UNCHANGED <<store, settings, dispatched, observe, call, environ, baseline>>

\* main, line 438 and the next iteration of while True.
Sleep ==
    /\ pc = "sleep"
    /\ BeginCycle
    /\ UNCHANGED <<store, settings, init_path, dispatched, observe, call, environ, baseline>>

\* Mutant: the exception is not caught by the loop and ends the process.
Abandon_uncaught ==
    /\ pc' = "exit1"
    /\ cycle' = "abandoned"
    /\ promise' = NoPair
    /\ ClearLocals

\* main, lines 435-436: an exception ends the cycle; the loop goes to sleep.
Abandon ==
    /\ pc' = "sleep"
    /\ cycle' = "abandoned"
    /\ promise' = NoPair
    /\ ClearLocals

\* poll_once, line 378: the monitored items are read once, in ascending
\* order; with none of them the cycle is complete.
StartPoll(s) ==
    /\ todo_items' = get_monitored_items(s)
    /\ pc' = IF s.monitored_items = {} THEN "sleep" ELSE "poll_items"
    /\ cycle' = IF s.monitored_items = {} THEN "complete" ELSE "running"

\* refresh_monitored_items, line 366: the next new item, or the return to
\* main, which calls poll_once.
NextRefreshItem(rest, s) ==
    IF rest = <<>>
    THEN StartPoll(s)
    ELSE /\ todo_items' = rest
         /\ pc' = "refresh_items"
         /\ cycle' = "running"

\* poll_once, line 381: the next monitored item, or the end of the cycle.
NextPollItem(rest) ==
    /\ todo_items' = rest
    /\ pc' = IF rest = <<>> THEN "sleep" ELSE "poll_items"
    /\ cycle' = IF rest = <<>> THEN "complete" ELSE "running"

\* refresh_monitored_items, lines 349-364.
RefreshFetchList ==
    /\ pc = "refresh"
    /\ \E outs \in GetAnswers :
         LET r == get_json(outs) IN
         /\ calls' = <<Call("GET", 0, r)>>
         /\ IF r.raised
            THEN /\ Abandon
                 /\ removed_items' = <<>>
                 /\ UNCHANGED store
            ELSE \E data \in UserResponses :
                 LET latest == fetch_user_submitted_ids(data)
                     current_set == Range(get_monitored_items(store))
                     new_items == sorted(latest \ current_set)
                     removed == sorted(current_set \ latest)
                     s1 == IF removed # <<>>
                           THEN remove_monitored_items(store, Range(removed))
                           ELSE store
                     s2 == IF new_items # <<>>
                           THEN add_monitored_items(s1, Range(new_items))
                           ELSE s1
                 IN
                 /\ ListAllowed(data)
                 /\ store' = s2
                 /\ latest_set' = latest
                 /\ removed_items' = removed
                 /\ NextRefreshItem(new_items, s2)
                 /\ UNCHANGED <<item_id, new_kids, todo_kids, promise>>
    /\ UNCHANGED <<settings, init_path, dispatched, observe, call, cycle_start, environ, baseline,
                   last_fail, last_skip>>

\* refresh_monitored_items, lines 366-373 for one new item: its kids are
\* recorded as known before any of them is notified.
RefreshFetchItem ==
    /\ pc = "refresh_items"
    /\ \E outs \in GetAnswers :
         LET item == Head(todo_items)
             r == get_json(outs)
         IN
         /\ calls' = <<Call("GET", item, r)>>
         /\ IF r.raised
            THEN /\ Abandon
                 /\ UNCHANGED store
            ELSE \E data \in ItemResponses :
                 LET kids == extract_kids(data) IN
                 /\ ItemAllowed(item, data)
                 /\ UNCHANGED promise
                 /\ IF kids = {}
                    THEN /\ NextRefreshItem(Tail(todo_items), store)
                         /\ UNCHANGED <<store, item_id, new_kids, todo_kids, latest_set>>
                    ELSE /\ store' = add_kids(store, item, kids)
                         /\ item_id' = item
                         /\ todo_kids' = sorted(kids)
                         /\ todo_items' = Tail(todo_items)
                         /\ pc' = "refresh_notify"
                         /\ UNCHANGED <<new_kids, latest_set, cycle>>
    /\ removed_items' = <<>>
    /\ UNCHANGED <<settings, init_path, dispatched, observe, call, cycle_start, environ, baseline,
                   last_fail, last_skip>>

\* poll_once, lines 381-390 for one monitored item.
PollFetchItem ==
    /\ pc = "poll_items"
    /\ \E outs \in GetAnswers :
         LET item == Head(todo_items)
             r == get_json(outs)
         IN
         /\ calls' = <<Call("GET", item, r)>>
         /\ IF r.raised
            THEN Abandon
            ELSE \E data \in ItemResponses :
                 LET current_kids == extract_kids(data)
                     known_kids == get_known_kids(store, item)
                     new == sorted(current_kids \ known_kids)
                 IN
                 /\ ItemAllowed(item, data)
                 /\ UNCHANGED promise
                 /\ IF new = <<>>
                    THEN /\ NextPollItem(Tail(todo_items))
                         /\ UNCHANGED <<item_id, new_kids, todo_kids, latest_set>>
                    ELSE /\ item_id' = item
                         /\ new_kids' = new
                         /\ todo_kids' = new
                         /\ todo_items' = Tail(todo_items)
                         /\ pc' = "poll_notify"
                         /\ UNCHANGED <<latest_set, cycle>>
    /\ removed_items' = <<>>
    /\ UNCHANGED <<store, settings, init_path, dispatched, observe, call, cycle_start, environ, baseline,
                   last_fail, last_skip>>

\* One send_comment_notification(kid_id, ...) of the inner for-loop, at
\* line 374 (refresh) or line 393 (poll_once), with what follows its return:
\* the next kid, or after the last one the rest of the outer loop body
\* (line 395 in poll_once) and the next item.
NotifyKid ==
    /\ pc \in {"refresh_notify", "poll_notify"}
    /\ \E a \in AnswersFor(store, Head(todo_kids)) :
         LET kid == Head(todo_kids)
             res == send_comment_notification(store, kid, a.get, a.available, a.post)
             rest == Tail(todo_kids)
         IN
         /\ calls' = res.calls
         /\ dispatched' = IF res.outcome = "sent" /\ dispatched[kid] < 2
                          THEN [dispatched EXCEPT ![kid] = @ + 1]
                          ELSE dispatched
         /\ last_fail' = IF res.outcome = "send_error" /\ observe = "history"
                         THEN <<item_id, kid>>
                         ELSE last_fail
         /\ last_skip' = IF res.outcome = "unavailable" /\ observe = "history"
                         THEN <<item_id, kid>>
                         ELSE last_skip
         /\ IF Raises(res.outcome)
            THEN /\ Abandon
                 /\ store' = res.store
            ELSE /\ promise' = IF res.outcome = "unavailable" THEN NoPair ELSE promise
                 /\ IF rest # <<>>
                    THEN /\ store' = res.store
                         /\ todo_kids' = rest
                         /\ UNCHANGED <<pc, cycle, todo_items, item_id, new_kids, latest_set>>
                    ELSE IF pc = "refresh_notify"
                    THEN /\ store' = res.store
                         /\ NextRefreshItem(todo_items, res.store)
                         /\ item_id' = 0
                         /\ todo_kids' = <<>>
                         /\ UNCHANGED <<new_kids, latest_set>>
                    ELSE /\ store' = add_kids(res.store, item_id, Range(new_kids))
                         /\ NextPollItem(todo_items)
                         /\ item_id' = 0
                         /\ todo_kids' = <<>>
                         /\ new_kids' = <<>>
                         /\ UNCHANGED latest_set
    /\ removed_items' = <<>>
    /\ UNCHANGED <<settings, init_path, observe, call, cycle_start, environ, baseline>>

\* The process is stopped while it sleeps, or has exited, and is started
\* again on the same state.db, possibly in another environment.
Restart ==
    /\ pc \in {"sleep", "exit1"}
    /\ pc' = "start"
    /\ settings' = NULL
    /\ init_path' = NULL
    /\ cycle' = "none"
    /\ calls' = <<>>
    /\ last_fail' = NoPair
    /\ last_skip' = NoPair
    /\ promise' = NoPair
    /\ removed_items' = <<>>
    /\ ClearLocals
    /\ environ' = NotRead
    /\ cycle_start' = EmptyStore
    /\ UNCHANGED <<store, dispatched, observe, call, baseline>>

Next ==
    \/ LoadSettings
    \/ EnsureStateInitialized
    \/ BootstrapFetchList
    \/ BootstrapFetchItem
    \/ StartLoop
    \/ RefreshFetchList
    \/ RefreshFetchItem
    \/ PollFetchItem
    \/ NotifyKid
    \/ Sleep
    \/ Restart

Spec == Init /\ [][Next]_vars
SpecHistory == InitHistory /\ [][Next]_vars
SpecPromise == InitPromise /\ [][Next]_vars
SpecCycle == InitCycle /\ [][Next]_vars

\* One process left to run: nobody stops it. It is single-threaded, every
\* HTTP call has a timeout and at most MAX_RETRIES attempts, and
\* time.sleep returns: whenever it has a next step it takes one.
NextProcess ==
    \/ LoadSettings
    \/ EnsureStateInitialized
    \/ BootstrapFetchList
    \/ BootstrapFetchItem
    \/ StartLoop
    \/ RefreshFetchList
    \/ RefreshFetchItem
    \/ PollFetchItem
    \/ NotifyKid
    \/ Sleep

SpecProcess == Init /\ [][NextProcess]_vars /\ WF_vars(NextProcess)

\* =================================================== functions on their own
\* A function of the program called on its own: the arguments are drawn at
\* the start, the one step applies the function to them.
main_vars == <<store, pc, environ, settings, locals, removed_items, init_path, cycle,
               calls, dispatched, observe, records, cycle_start>>

\* The stores SQLite can hold: item_kids.item_id references monitored_items.
Stores ==
    {s \in [monitored_items : SUBSET Items, item_kids : SUBSET Pairs,
            notified_kids : SUBSET Kids,
            metadata : {EmptyStore.metadata,
                        [hn_username |-> "alice", initialized_at |-> "time"]}] :
        \A p \in s.item_kids : p[1] \in s.monitored_items}

GetJsonCalls ==
    [fn : {"get_json"}, outs : GetAttempts, done : {FALSE}, result : {NULL}]

SendNotificationCalls ==
    [fn : {"send_notification"}, outs : PostAttempts, done : {FALSE}, result : {NULL}]

SendCommentCalls ==
    [fn : {"send_comment_notification"}, store : Stores, kid_id : Kids,
     answer : Answers, done : {FALSE}, result : {NULL}]

AddKidsCalls ==
    [fn : {"add_kids"}, store : Stores, item_id : Items, kid_ids : SUBSET Kids,
     done : {FALSE}, result : {NULL}]

\* The texts drawn: short ones, and ones about as long as the preview
\* limit, with whitespace at any of the two ends and around the place
\* where the preview is cut.
TextLens ==
    0..2 \cup (COMMENT_PREVIEW_LIMIT - 1)..(COMMENT_PREVIEW_LIMIT + MaxOver + 2)

BlankSpots(len) ==
    {1, len} \cup (COMMENT_PREVIEW_LIMIT - 4)..(COMMENT_PREVIEW_LIMIT - 1)

Text(len, blanks) ==
    [n \in 1..len |-> IF n \in blanks THEN (IF n % 3 = 0 THEN "\n" ELSE " ")
                                     ELSE (IF n % 2 = 0 THEN "a" ELSE "b")]

Texts ==
    UNION {{Text(len, blanks) : blanks \in SUBSET BlankSpots(len)} : len \in TextLens}

FormatNotificationCalls ==
    [fn : {"format_notification"}, text : Texts, done : {FALSE}, result : {NULL}]

FunctionCalls ==
    GetJsonCalls \cup SendNotificationCalls \cup SendCommentCalls
        \cup AddKidsCalls \cup FormatNotificationCalls

InitFunctions ==
    /\ InitProgram
    /\ environ = NotRead
    /\ observe = "none"
    /\ call \in FunctionCalls

Return(value) == call' = [call EXCEPT !.done = TRUE, !.result = value]

CallGetJson ==
    /\ call.fn = "get_json" /\ ~call.done
    /\ Return(get_json(call.outs))
    /\ UNCHANGED main_vars

CallSendNotification ==
    /\ call.fn = "send_notification" /\ ~call.done
    /\ Return(send_notification(call.outs))
    /\ UNCHANGED main_vars

CallSendCommentNotification ==
    /\ call.fn = "send_comment_notification" /\ ~call.done
    /\ Return(send_comment_notification(call.store, call.kid_id, call.answer.get,
                                        call.answer.available, call.answer.post))
    /\ UNCHANGED main_vars

\* add_kids called once, and called again on the store the first call left.
CallAddKids ==
    /\ call.fn = "add_kids" /\ ~call.done
    /\ LET once == IF add_kids_raises(call.store, call.item_id, call.kid_ids)
                   THEN call.store
                   ELSE add_kids(call.store, call.item_id, call.kid_ids)
           twice == IF add_kids_raises(once, call.item_id, call.kid_ids)
                    THEN once
                    ELSE add_kids(once, call.item_id, call.kid_ids)
       IN Return([raised |-> add_kids_raises(call.store, call.item_id, call.kid_ids),
                  once |-> once,
                  raised_again |-> add_kids_raises(once, call.item_id, call.kid_ids),
                  twice |-> twice])
    /\ UNCHANGED main_vars

CallFormatNotification ==
    /\ call.fn = "format_notification" /\ ~call.done
    /\ Return([clean_text |-> clean_text(call.text), preview |-> preview(call.text)])
    /\ UNCHANGED main_vars

NextFunctions ==
    \/ CallGetJson
    \/ CallSendNotification
    \/ CallSendCommentNotification
    \/ CallAddKids
    \/ CallFormatNotification

SpecFunctions == InitFunctions /\ [][NextFunctions]_vars

\* ================================================================ claims
Notifying == pc \in {"refresh_notify", "poll_notify"}

\* What send_comment_notification would return in this state on answer a.
SendResult(a) ==
    send_comment_notification(store, Head(todo_kids), a.get, a.available, a.post)

\* C1: while the store is not reset, every comment id is successfully
\* dispatched at most once, and an id that was dispatched is in
\* notified_kids from then on.
C1_AtMostOnce ==
    \A k \in Kids :
        /\ dispatched[k] <= 1
        /\ dispatched[k] = 1 => k \in store.notified_kids

\* C1 witness: a kid that was dispatched before is up for notification
\* again (its item left the submitted list and came back, or an earlier
\* cycle was abandoned after its dispatch).
C1_Witness ==
    /\ Notifying
    /\ dispatched[Head(todo_kids)] = 1

\* C2: baseline suppression. A kid that bootstrap recorded as a child of a
\* submitted item is never dispatched in a later cycle. Stated for the
\* kid met again under the item it was recorded for, which is the least
\* the claim says of the id.
C2_BaselineSuppressed ==
    [][\A k \in Kids :
          dispatched'[k] > dispatched[k] => <<item_id, k>> \notin baseline]_vars

\* C3: after a dispatch that raised (the cycle was abandoned) the comment
\* stays eligible: its row is not in item_kids, so that the next cycle
\* finds it new again, on a new item or in the per-item diff.
C3_FailedStaysEligible ==
    (pc = "sleep" /\ last_fail # NoPair) => last_fail \notin store.item_kids

\* C4: when the comment content was unavailable, the id is not excluded
\* from future diffs: at the end of the cycle its row is not in item_kids,
\* and it is not in notified_kids either.
C4_UnavailableStaysEligible ==
    (pc = "sleep" /\ last_skip # NoPair) =>
        /\ last_skip \notin store.item_kids
        /\ last_skip[2] \notin store.notified_kids

\* C5: no comment is missed. A pair <<item, kid>> that the store does not
\* know when a cycle starts, and that the source API lists throughout the
\* cycle, has its notification dispatched by the end of that cycle,
\* provided the cycle is complete: no fetch and no send of it failed and
\* no comment was unavailable (the promise is dropped when one is). A
\* comment that appears after bootstrap is unknown at the start of the
\* first cycle that follows, so this is the claim for every cycle of a
\* run without failures.
C5_NoCommentMissed ==
    (pc = "sleep" /\ cycle = "complete" /\ promise # NoPair) =>
        /\ promise[2] \in store.notified_kids
        /\ dispatched[promise[2]] = 1
        /\ promise \in store.item_kids

\* C5 witness: a complete cycle that kept its promise, for a kid found by
\* the per-item diff of an item that was monitored before the cycle (the
\* item was not fetched as a new item: its other kid is a baseline kid
\* that was not notified).
C5_Witness ==
    /\ pc = "sleep" /\ cycle = "complete" /\ promise # NoPair
    /\ \E k \in Kids : <<promise[1], k>> \in store.item_kids
                          /\ k \notin store.notified_kids

\* The step is a monitored-set refresh whose submitted-list fetch succeeded.
RefreshedList ==
    /\ pc = "refresh"
    /\ calls' = <<[op |-> "GET", target |-> 0, ok |-> TRUE]>>

\* C6: monitored-set convergence. A refresh whose list fetch succeeds, on
\* stored set M and fetched list L, removes exactly M \ L (with the
\* known kids of the removed items only), adds exactly L \ M, and leaves
\* the monitored set equal to L; no later step of the same refresh (a
\* child fetch, a send, their failures) changes the monitored set.
C6_MonitoredConverges ==
    [][/\ RefreshedList =>
            /\ store'.monitored_items = latest_set'
            /\ Range(removed_items') = store.monitored_items \ latest_set'
            /\ store'.monitored_items \ store.monitored_items
                  = latest_set' \ store.monitored_items
            /\ store'.item_kids
                  = {p \in store.item_kids : p[1] \in latest_set'}
       /\ pc \in {"refresh_items", "refresh_notify"} =>
            store'.monitored_items = store.monitored_items]_vars

\* C6 witness: a refresh has just removed a stale item and added a new
\* one, whose children are still to be fetched.
C6_Witness ==
    /\ pc = "refresh_items"
    /\ removed_items # <<>>
    /\ todo_items # <<>>
    /\ store.monitored_items = latest_set

\* C7: identity-change reset. On the reset path every table is empty when
\* bootstrap starts; when initialization has completed the store holds
\* the submitted items just fetched as its monitored set, known kids of
\* those items only, no notified kid, and the configured user's name.
C7_IdentityChangeReset ==
    /\ (pc = "bootstrap" /\ init_path = "reset") => store = EmptyStore
    /\ (pc = "initialized" /\ init_path = "reset") =>
          /\ store.monitored_items = latest_set
          /\ \A p \in store.item_kids : p[1] \in latest_set
          /\ store.notified_kids = {}
          /\ store.metadata.hn_username = settings
          /\ store.metadata.initialized_at # NULL

\* C7 witness: initialization completed on the reset path, with baseline
\* children recorded for the new user.
C7_Witness ==
    /\ pc = "initialized"
    /\ init_path = "reset"
    /\ store.item_kids # {}

\* C8: referential invariant: every item_kids row belongs to a monitored
\* item, in every reachable state.
C8_KnownKidsReferToMonitored ==
    \A p \in store.item_kids : p[1] \in store.monitored_items

\* C8 witness: a refresh has just removed a monitored item while known
\* kids of another item are in the store.
C8_Witness ==
    /\ removed_items # <<>>
    /\ store.item_kids # {}

\* C9: on an already notified id send_comment_notification makes no call,
\* changes nothing in the store and reports that nothing was sent,
\* whatever the network would have answered.
C9_NotifiedIsNoOp ==
    (Notifying /\ is_kid_notified(store, Head(todo_kids))) =>
        \A a \in Answers :
            /\ SendResult(a).calls = <<>>
            /\ SendResult(a).store = store
            /\ SendResult(a).outcome = "skipped"

\* C9 witness: the kid up for notification is already notified.
C9_Witness ==
    /\ Notifying
    /\ Head(todo_kids) \in store.notified_kids

\* C10: an id enters notified_kids only after a dispatch for it returned
\* success. Whatever the network answers: when no POST attempt succeeds
\* notified_kids is unchanged, and when it changes the one new id is the
\* kid, whose POST was the last call made and succeeded. And a notified id
\* is one that was dispatched.
C10_NotifiedOnlyAfterSuccess ==
    /\ \A k \in store.notified_kids : dispatched[k] >= 1
    /\ Notifying =>
         \A a \in Answers :
            LET res == SendResult(a) IN
            /\ (\A n \in 1..MAX_RETRIES : a.post[n] # "ok") =>
                   res.store.notified_kids = store.notified_kids
            /\ res.store.notified_kids # store.notified_kids =>
                   /\ res.store.notified_kids
                         = store.notified_kids \cup {Head(todo_kids)}
                   /\ res.calls[Len(res.calls)]
                         = [op |-> "POST", target |-> Head(todo_kids), ok |-> TRUE]

\* C10 witness: the last step's dispatch failed on every attempt and the
\* kid is not in notified_kids.
C10_Witness ==
    /\ Len(calls) = 2
    /\ calls[2].op = "POST"
    /\ ~calls[2].ok
    /\ calls[2].target \notin store.notified_kids

\* C11: cycle-failure resilience. Once ensure_state_initialized has
\* returned, a process that is left to run never exits and starts a new
\* cycle again and again, whatever fetches and sends fail: an error raised
\* in the refresh or in the per-item diff only abandons the cycle.
C11_CyclesForever ==
    [](pc = "initialized" => ([](pc # "exit1") /\ []<>(pc = "refresh")))

\* C11 witness: a call failed on every attempt inside a cycle, the cycle
\* was abandoned and the process is in time.sleep.
C11_Witness ==
    /\ pc = "sleep"
    /\ cycle = "abandoned"
    /\ calls # <<>>
    /\ ~calls[Len(calls)].ok

Returned(fn) == call.fn = fn /\ call.done

\* C12: bounded retry. A GET and a POST make at most MAX_RETRIES attempts;
\* when every attempt fails the call raises (after MAX_RETRIES attempts
\* when the failures are of the kinds that are retried); and a
\* send_comment_notification whose fetch or send raised leaves the store
\* as it was.
C12_BoundedRetry ==
    /\ (Returned("get_json") \/ Returned("send_notification")) =>
          /\ call.result.attempts <= MAX_RETRIES
          /\ (\A n \in 1..MAX_RETRIES : call.outs[n] # "ok") => call.result.raised
          /\ (\A n \in 1..MAX_RETRIES : call.outs[n] \in {"error"} \cup CaughtOutcomes)
                => (call.result.raised /\ call.result.attempts = MAX_RETRIES)
          /\ call.result.raised => call.outs[call.result.attempts] # "ok"
    /\ Returned("send_comment_notification") =>
          (Raises(call.result.outcome) => call.result.store = call.store)

\* C12 witness: a POST failed on each of the MAX_RETRIES attempts, with
\* failures of different kinds, and raised.
C12_Witness ==
    /\ Returned("send_notification")
    /\ call.result.raised
    /\ call.result.attempts = MAX_RETRIES
    /\ call.outs[1] # call.outs[2]

\* C13: the known-kid insert is idempotent. For every store, every
\* monitored item and every set of kid ids, add_kids raises nothing, keeps
\* every row there was and adds the given ones, leaves the other tables
\* alone, is a no-op when the rows exist already, and called a second
\* time changes nothing.
C13_AddKidsIdempotent ==
    (Returned("add_kids") /\ call.item_id \in call.store.monitored_items) =>
        LET rows == {<<call.item_id, k>> : k \in call.kid_ids}
            once == call.result.once
        IN
        /\ ~call.result.raised /\ ~call.result.raised_again
        /\ call.result.twice = once
        /\ call.store.item_kids \subseteq once.item_kids
        /\ rows \subseteq once.item_kids
        /\ once.item_kids \subseteq call.store.item_kids \cup rows
        /\ [once EXCEPT !.item_kids = {}] = [call.store EXCEPT !.item_kids = {}]
        /\ rows \subseteq call.store.item_kids => once = call.store

\* C13 witness: add_kids was called with a row the store had and a row it
\* had not, while another item has known kids too.
C13_Witness ==
    /\ Returned("add_kids")
    /\ call.item_id \in call.store.monitored_items
    /\ \E k1, k2 \in call.kid_ids :
          /\ <<call.item_id, k1>> \in call.store.item_kids
          /\ <<call.item_id, k2>> \notin call.store.item_kids
    /\ \E p \in call.store.item_kids : p[1] # call.item_id

\* A required setting is missing or the poll interval is no integer.
Defective(env) ==
    \/ "" \in {env.HN_USERNAME, env.TELEGRAM_BOT_TOKEN, env.TELEGRAM_CHAT_ID}
    \/ ~env.interval_is_int

InLoop ==
    pc \in {"refresh", "refresh_items", "refresh_notify", "poll_items",
            "poll_notify", "sleep"}

\* C14: fatal startup errors. load_settings on a defective environment
\* ends the process with exit code 1, and so does a fetch that raises
\* during bootstrap. Exit code 1 is reached only from outside the polling
\* loop, which this process has then never entered (the loop is left only
\* by stopping the process): the step that exits, like every step before
\* the loop, makes no POST and leaves notified_kids alone.
C14_FatalStartup ==
    [][/\ pc = "start" =>
            IF Defective(environ') THEN pc' = "exit1" ELSE pc' = "init"
       /\ (pc \in {"bootstrap", "bootstrap_items"} /\ ~calls'[1].ok) =>
            pc' = "exit1"
       /\ pc' = "exit1" => (~InLoop /\ cycle' = "none")
       /\ (InLoop /\ ~InLoop') => pc' = "start"
       /\ ~InLoop =>
            /\ \A n \in 1..Len(calls') : calls'[n].op = "GET"
            /\ store'.notified_kids = store.notified_kids \/ store' = EmptyStore
            /\ dispatched' = dispatched \/ dispatched' = NoDispatch
       /\ pc = "exit1" => pc' = "start"]_vars

\* C14 witness: the process has exited with code 1 because a child fetch
\* of bootstrap raised, after the monitored set was stored.
C14_Witness ==
    /\ pc = "exit1"
    /\ calls # <<>>
    /\ store.monitored_items # {}
    /\ store.metadata.hn_username = NULL

\* C15 as claimed: cleaned text longer than the preview limit comes out as
\* exactly its first COMMENT_PREVIEW_LIMIT - 3 characters followed by
\* "...", COMMENT_PREVIEW_LIMIT characters in all; cleaned text of at most
\* the limit comes out unchanged.
C15_TruncationExact ==
    Returned("format_notification") =>
        LET clean == call.result.clean_text
            out == call.result.preview
        IN
        IF Len(clean) > COMMENT_PREVIEW_LIMIT
        THEN /\ out = SubSeq(clean, 1, COMMENT_PREVIEW_LIMIT - 3) \o <<".", ".", ".">>
             /\ Len(out) = COMMENT_PREVIEW_LIMIT
        ELSE out = clean

\* C15, amended: cleaned text longer than the preview limit comes out as
\* a prefix of it followed by "...": the first COMMENT_PREVIEW_LIMIT - 3
\* characters without the whitespace they end in. That is at most
\* COMMENT_PREVIEW_LIMIT characters, and exactly as claimed when the
\* character at COMMENT_PREVIEW_LIMIT - 3 is no whitespace. Cleaned text
\* of at most the limit comes out unchanged.
C15_TruncationTrimmed ==
    Returned("format_notification") =>
        LET clean == call.result.clean_text
            out == call.result.preview
            cut == COMMENT_PREVIEW_LIMIT - 3
            kept == Len(out) - 3
        IN
        IF Len(clean) > COMMENT_PREVIEW_LIMIT
        THEN /\ kept \in 1..cut
             /\ SubSeq(out, 1, kept) = SubSeq(clean, 1, kept)
             /\ SubSeq(out, kept + 1, kept + 3) = <<".", ".", ".">>
             /\ out[kept] \notin Whitespace
             /\ \A n \in (kept + 1)..cut : clean[n] \in Whitespace
             /\ clean[cut] \notin Whitespace => Len(out) = COMMENT_PREVIEW_LIMIT
        ELSE out = clean

\* C15 witness: the cleaned text is longer than the limit and has
\* whitespace where the preview is cut.
C15_Witness ==
    /\ Returned("format_notification")
    /\ Len(call.result.clean_text) > COMMENT_PREVIEW_LIMIT
    /\ call.result.clean_text[COMMENT_PREVIEW_LIMIT - 3] \in Whitespace
    /\ call.result.clean_text # call.text

\* The step ends the notification attempts poll_once makes for item_id.
AttemptsEnd == pc = "poll_notify" /\ pc' # "poll_notify"

\* The last call of the step failed on every attempt.
CallFailed == calls' # <<>> /\ ~calls'[Len(calls')].ok

\* C16 as claimed: when the attempts for the new children of an item have
\* ended, however they ended, every current child of the item (the known
\* ones and the new ones) is a known kid of the item.
C16_KnownAfterAttempts ==
    [][AttemptsEnd =>
          \A k \in Range(new_kids) : <<item_id, k>> \in store'.item_kids]_vars

\* C16, amended: when the attempts have ended without an error (each new
\* child was sent, skipped as already notified, or unavailable) the known
\* kids of the item are the ones known before and every new child; when a
\* comment fetch or a dispatch failed after all retries, the attempts end
\* there and item_kids is left as it was before them: no new child of the
\* item is recorded.
C16_KnownUnlessRaised ==
    [][AttemptsEnd =>
          IF CallFailed
          THEN /\ store'.item_kids = store.item_kids
               /\ \A k \in Range(new_kids) : <<item_id, k>> \notin store'.item_kids
          ELSE /\ get_known_kids(store', item_id)
                     = get_known_kids(store, item_id) \cup Range(new_kids)
               /\ \A i \in Items \ {item_id} :
                     get_known_kids(store', i) = get_known_kids(store, i)]_vars

\* C16 witness: the per-item diff has just ended the attempts for an item
\* with a comment that was unavailable (fetched, nothing sent); the comment
\* is a known kid of the item and not notified.
C16_Witness ==
    /\ pc = "poll_items"
    /\ Len(calls) = 1
    /\ calls[1].target \in Kids
    /\ calls[1].ok
    /\ calls[1].target \notin store.notified_kids
    /\ \E i \in Items \ Range(todo_items) : <<i, calls[1].target>> \in store.item_kids

Bootstrapping == pc \in {"bootstrap", "bootstrap_items"}

\* C17: the bootstrap completion marker. While bootstrap runs hn_username
\* is absent, no step of it makes a POST or touches notified_kids; a step
\* whose fetch raised ends the process with the store as it was, so the
\* marker stays absent; the marker is written, with the configured name,
\* by the step that has the monitored set stored and has visited the last
\* submitted item, and by no other. A startup that finds the marker absent
\* runs bootstrap from the start, which begins the baseline again (no
\* known kid is kept), and the polling loop only ever runs with the marker
\* of the configured user in place.
C17_CompletionMarker ==
    [][/\ Bootstrapping =>
            /\ store.metadata.hn_username = NULL
            /\ \A n \in 1..Len(calls') : calls'[n].op = "GET"
            /\ store'.notified_kids = store.notified_kids
            /\ dispatched' = dispatched
            /\ IF CallFailed
               THEN pc' = "exit1" /\ store' = store
               ELSE /\ store'.monitored_items = latest_set'
                    /\ store'.metadata.hn_username # NULL <=> todo_items' = <<>>
                    /\ store'.metadata.hn_username \in {NULL, settings}
                    /\ store'.metadata.hn_username # NULL <=> pc' = "initialized"
                    /\ pc = "bootstrap" => store'.item_kids = {}
                    /\ pc = "bootstrap_items" =>
                          /\ store.item_kids \subseteq store'.item_kids
                          /\ \A p \in store'.item_kids \ store.item_kids :
                                p[1] = Head(todo_items)
       /\ (pc = "init" /\ store.metadata.hn_username = NULL) => pc' = "bootstrap"
       /\ InLoop' => store'.metadata.hn_username = settings']_vars

\* C17 witness: bootstrap starts on a store that an interrupted bootstrap
\* left behind: a monitored set and known kids, no marker.
C17_Witness ==
    /\ pc = "bootstrap"
    /\ store.item_kids # {}
    /\ store.metadata.hn_username = NULL

\* C18: initialization with a matching identity changes nothing. When the
\* stored hn_username is the configured one, ensure_state_initialized
\* leaves the four tables as they are and makes no call, and the loop
\* starts its first cycle on that store; stopping the process and loading
\* the settings of the next one do not touch the store either, so what
\* the first cycle after a restart works on is what was persisted.
C18_MatchingIdentityNoChange ==
    [][/\ (pc = "init" /\ store.metadata.hn_username = settings) =>
            /\ store' = store
            /\ calls' = <<>>
            /\ dispatched' = dispatched
            /\ pc' = "initialized" /\ init_path' = "loaded"
       /\ (pc = "initialized" /\ init_path = "loaded") =>
            /\ store' = store
            /\ calls' = <<>>
            /\ pc' = "refresh"
       /\ (pc' = "start" \/ pc = "start") => (store' = store /\ calls' = <<>>)]_vars

\* C18 witness: a restarted process has loaded existing state that holds
\* notified kids and known kids that are not notified.
C18_Witness ==
    /\ pc = "initialized"
    /\ init_path = "loaded"
    /\ store.notified_kids # {}
    /\ \E p \in store.item_kids : p[2] \notin store.notified_kids

Ascending(q) == \A m, n \in 1..Len(q) : m < n => q[m] < q[n]

\* C19: the processing order within a cycle. The refresh step has removed
\* the stale items and added the new ones before the first child fetch,
\* and visits the new items in ascending order; the per-item diff begins
\* only when the refresh has nothing left to do, never goes back to it,
\* and visits all monitored items in ascending order; the attempts for an
\* item's children are made in ascending kid order, one kid per step, each
\* step's calls being about that kid alone.
C19_ProcessingOrder ==
    [][/\ (pc = "refresh" /\ ~CallFailed) =>
            /\ Range(removed_items') \cap store'.monitored_items = {}
            /\ latest_set' \subseteq store'.monitored_items
            /\ pc' = "refresh_items" =>
                  /\ Range(todo_items') = store'.monitored_items \ store.monitored_items
                  /\ Ascending(todo_items')
       /\ (pc \in {"refresh", "refresh_items", "refresh_notify"}
              /\ pc' = "poll_items") =>
            /\ Range(todo_items') = store'.monitored_items
            /\ Ascending(todo_items')
            /\ pc = "refresh" => store'.monitored_items \subseteq store.monitored_items
            /\ pc = "refresh_items" => Tail(todo_items) = <<>>
            /\ pc = "refresh_notify" => (todo_items = <<>> /\ Tail(todo_kids) = <<>>)
       /\ pc \in {"poll_items", "poll_notify"} =>
            pc' \in {"poll_items", "poll_notify", "sleep"}
       /\ pc \in {"refresh_items", "poll_items"} =>
            /\ calls' = <<[op |-> "GET", target |-> Head(todo_items), ok |-> ~CallFailed]>>
            /\ pc' # "poll_items" \/ pc = "poll_items" =>
                  \A i \in Range(todo_items') : i > Head(todo_items)
            /\ pc' \in {"refresh_notify", "poll_notify"} =>
                  /\ item_id' = Head(todo_items)
                  /\ todo_items' = Tail(todo_items)
                  /\ Ascending(todo_kids')
       /\ Notifying =>
            /\ \A n \in 1..Len(calls') : calls'[n].target = Head(todo_kids)
            /\ \A k \in Range(todo_kids') : k > Head(todo_kids)
            /\ pc' = pc => (todo_kids' = Tail(todo_kids) /\ item_id' = item_id)]_vars

\* C19 witness: the per-item diff has made the attempt for the first of
\* two new kids of an item and a monitored item with a larger id waits.
C19_Witness ==
    /\ pc = "poll_notify"
    /\ Len(new_kids) = 2
    /\ todo_kids = Tail(new_kids)
    /\ todo_items # <<>>

\* A dispatch of the per-item diff failed on every attempt in this step.
DispatchFailedInDiff ==
    /\ pc = "poll_notify"
    /\ Len(calls') = 2
    /\ ~calls'[2].ok

\* What C20 says apart from the known kids: the failed dispatch ends the
\* cycle at once with nothing changed by the step, so that what was sent
\* before stays notified and nothing later is attempted (the next step is
\* the next cycle, or the process is stopped); notified_kids never shrinks
\* in the loop; and an error in the refresh ends the cycle before the
\* per-item diff.
AbandonedCycleStops ==
    /\ DispatchFailedInDiff =>
          /\ pc' = "sleep" /\ cycle' = "abandoned"
          /\ store' = store
          /\ todo_items' = <<>> /\ todo_kids' = <<>>
    /\ InLoop => store.notified_kids \subseteq store'.notified_kids
    /\ (pc \in {"refresh", "refresh_items", "refresh_notify"} /\ CallFailed) =>
          (pc' = "sleep" /\ cycle' = "abandoned")
    /\ cycle = "abandoned" => (calls' = <<>> /\ pc' \in {"refresh", "start"})

\* C20 as claimed: the abandoned-cycle effect, with the known kids of the
\* item being processed exactly as they were before the cycle.
C20_AbandonedCycle ==
    [][/\ AbandonedCycleStops
       /\ DispatchFailedInDiff =>
            get_known_kids(store', item_id) = get_known_kids(cycle_start, item_id)]_vars

\* C20, amended: the abandoned-cycle effect, with the known kids of the
\* item being processed exactly as they were when the per-item diff
\* reached the item: no attempt for the item changes item_kids. That is as
\* they were before the cycle when the item was monitored before the
\* cycle; an item this cycle's refresh discovered keeps the kids the
\* refresh recorded for it.
C20_AbandonedCycleSinceDiff ==
    [][/\ AbandonedCycleStops
       /\ (pc = "poll_notify" /\ (pc' = "poll_notify" \/ CallFailed)) =>
            store'.item_kids = store.item_kids
       /\ (DispatchFailedInDiff /\ item_id \in cycle_start.monitored_items) =>
            get_known_kids(store', item_id) = get_known_kids(cycle_start, item_id)
       /\ (DispatchFailedInDiff /\ item_id \notin cycle_start.monitored_items) =>
            item_id \in latest_set]_vars

\* C20 witness: a cycle was abandoned by a failed dispatch of the per-item
\* diff (the comment is a known kid of no item) after another comment was
\* sent in the same cycle, which is notified.
C20_Witness ==
    /\ pc = "sleep"
    /\ cycle = "abandoned"
    /\ Len(calls) = 2
    /\ ~calls[2].ok
    /\ \A i \in Items : <<i, calls[2].target>> \notin store.item_kids
    /\ store.notified_kids # cycle_start.notified_kids

====
